---- MODULE Spec2Model ----
(***************************************************************************)
(* Model of spiderrobot/positioner.py: the Axis kinematics and the         *)
(* Positioner controller (addAxis, moveToPos, getPos, moveOnLine) talking  *)
(* to the stepper controllers over the serial line.                        *)
(*                                                                         *)
(* Numbers.  Lengths are integers counting half millimetres, so 0.001 m is *)
(* 2.  An axle is given by its circumference pi*diameter in the same unit  *)
(* (the field keeps the name diameter).  Angles and rates are floats in    *)
(* the code; here they are integers counting halves of a degree, and the   *)
(* circumferences are chosen so that 360*l/(pi*diameter) is exact.  The    *)
(* float nan is the value NaN.  Points are triples; the points used lie on *)
(* one line, so every square root taken is exact.                          *)
(***************************************************************************)
EXTENDS Integers, Sequences, FiniteSets, TLC

\* ---------------------------------------------------------------- bounds
MaxAxes == 2
MaxX == 3
MaxEmpty == 4
MaxPolls == 1
PollEmpty == 0
DeepPolls == 203
MaxSteps == 4
PollDepth == 22

\* ------------------------------------------------------ program constants
Tol == 2
ResendAt == 20
GiveUpAfter == 200
RateMin == 1
RateMax == 1000
ResendRate == 10
FScale == 2
NaN == -1000000

\* ------------------------------------------------------------ arithmetic
Abs(x) == IF x < 0 THEN -x ELSE x

Min(a, b) == IF a < b THEN a ELSE b

\* int(): truncation towards zero of num/den, den > 0
Trunc(num, den) == IF num < 0 THEN -((-num) \div den) ELSE num \div den

RECURSIVE SqrtIter(_, _, _)
SqrtIter(n, lo, hi) ==
    IF lo >= hi THEN lo
    ELSE LET mid == (lo + hi + 1) \div 2
         IN  IF mid * mid <= n THEN SqrtIter(n, mid, hi)
                               ELSE SqrtIter(n, lo, mid - 1)

\* np.sqrt, rounded down to the grid
Sqrt(n) == SqrtIter(n, 0, Min(n, 46340))

VecAdd(a, b) == <<a[1] + b[1], a[2] + b[2], a[3] + b[3]>>

VecSub(a, b) == <<a[1] - b[1], a[2] - b[2], a[3] - b[3]>>

SumSq(vec) ==
    LET F[k \in 0..Len(vec)] == IF k = 0 THEN 0 ELSE F[k - 1] + vec[k] * vec[k]
    IN  F[Len(vec)]

\* magnitude(vec): nan when a component is nan
magnitude(vec) ==
    IF \E k \in 1..Len(vec) : vec[k] = NaN THEN NaN ELSE Sqrt(SumSq(vec))

\* round(float) of a value counted in 1/FScale: an integer
round(h) ==
    IF h < 0 THEN Trunc(h * 2 - FScale, 2 * FScale)
             ELSE Trunc(h * 2 + FScale, 2 * FScale)

\* np.clip
clip(x, lo, hi) == IF x < lo THEN lo ELSE IF x > hi THEN hi ELSE x

\* '{}'.format(n) of an integer
Fmt(n) == ToString(n)

\* the integers a response line is parsed over
IntRange == -40..40

\* int(resp) succeeds
IsInt(s) == \E n \in IntRange : Fmt(n) = s

\* int(resp)
ParseInt(s) == CHOOSE n \in IntRange : Fmt(n) = s

\* float subtraction, nan in nan out
FSub(a, b) == IF a = NaN \/ b = NaN THEN NaN ELSE a - b

\* ------------------------------------------------------------------ Axis
\* Axis.len2rot with the axle's circumference d: 360*l/(pi*diameter), counted in
\* 1/FScale degree; a zero diameter gives inf or nan, which every use turns to nan
len2rot(d, l) ==
    IF d = 0 \/ l = NaN THEN NaN
    ELSE LET n == 360 * FScale * l
         IN  IF (n < 0) = (d < 0) THEN Abs(n) \div Abs(d) ELSE -(Abs(n) \div Abs(d))

\* Axis.dist
dist(ax) == magnitude(VecSub(ax.target, ax.placed))

\* Axis.rot
rot(ax) == len2rot(ax.diameter, dist(ax))

\* Axis.angle
angle(ax) == FSub(rot(ax), ax.offsetRot)

\* Axis.setTarget taking the new position as the zero of the angle
setTargetRezero(ax, target) ==
    LET a == [ax EXCEPT !.target = VecAdd(target, ax.attached)]
    IN  [a EXCEPT !.offsetRot = rot(a)]

\* Axis.setTarget
setTarget(ax, target) == [ax EXCEPT !.target = VecAdd(target, ax.attached)]

\* Axis.__init__ taking the start position for the target, whatever is passed
NewAxisAtStart(id, diameter, placed, target, attached) ==
    LET a == [id |-> id, diameter |-> diameter, placed |-> placed,
              attached |-> attached, target |-> VecAdd(<<0, 0, 0>>, attached),
              offsetRot |-> 0]
    IN  [a EXCEPT !.offsetRot = rot(a)]

\* Axis.__init__
NewAxis(id, diameter, placed, target, attached) ==
    LET a == [id |-> id, diameter |-> diameter, placed |-> placed,
              attached |-> attached, target |-> VecAdd(target, attached),
              offsetRot |-> 0]
    IN  [a EXCEPT !.offsetRot = rot(a)]

\* ------------------------------------------------------------- the wire
\* the command lines the Positioner formats
CmdPowOn(id) == "AXIS" \o Fmt(id) \o ":POW ON"

CmdPowQ(id) == "AXIS" \o Fmt(id) \o ":POW?"

CmdRate(id, n) == "AXIS" \o Fmt(id) \o ":RATE " \o Fmt(n)

CmdPos(id, n) == "AXIS" \o Fmt(id) \o ":POS " \o Fmt(n)

\* line 195 with the short prefix
CmdPosQShort(id) == "AX" \o Fmt(id) \o ":POS?"

\* line 195
CmdPosQ(id) == "AXIS" \o Fmt(id) \o ":POS?"

\* ---------------------------------------------------------------- inputs
Points == { <<x, 0, 0>> : x \in 0..MaxX } \cup { <<6, 0, 0>> }

Ids == {1, 2}

\* the axes a caller registers: id, placed, diameter, attached
AxisArgs ==
    { <<1, <<-8, 0, 0>>, 360, <<0, 0, 0>>>>,
      <<2, <<3, 0, 0>>, 360, <<0, 0, 0>>>>,
      <<2, <<3, 0, 0>>, 720, <<1, 0, 0>>>> }

\* the same with ids used twice and diameters that are not positive
SetupArgs ==
    { <<1, <<-8, 0, 0>>, 360, <<0, 0, 0>>>>,
      <<1, <<-8, 0, 0>>, 360, <<1, 0, 0>>>>,
      <<2, <<3, 0, 0>>, 0, <<0, 0, 0>>>>,
      <<2, <<3, 0, 0>>, -360, <<0, 0, 0>>>> }

\* the one axis of the runs that poll for long
DeepArgs == { <<1, <<-8, 0, 0>>, 360, <<0, 0, 0>>>> }

DeepPoints == { <<0, 0, 0>>, <<3, 0, 0>> }

Vels == {20, 1200}

LineVels == {20}

PowAnswers == {"ON", "OFF", ""}

\* what an axis reports, relative to the angle it was commanded to
Offsets == {-2, 1}

DeepOffsets == {-2, 0, 1}

\* ----------------------------------------------------------------- state
VARIABLES
    tarPos,       \* Positioner.tarPos
    axes,         \* Positioner.axes
    pc,           \* where the running call stands; "idle" when none runs
    op,           \* the public method called last
    err,          \* the exception that ended it, "none" otherwise
    ret,          \* the value getPos returned last
    mvPos,        \* moveToPos: pos
    mvVel,        \* moveToPos: vel
    angleDiffs,   \* moveToPos: angleDiffs
    i,            \* moveToPos: index in axes of ax in the running loop
    notThereCnt,  \* moveToPos: notThereCnt
    qId,          \* getPos: id
    resps,        \* getPos: the values resp has taken in the running call
    polls,        \* unsatisfied polls of ax so far in the running moveToPos
    sent,         \* lines written to the serial port by the call of op
    reported,     \* the position each polled axis reported last
    line,         \* moveOnLine: the (x, y, z, v) still to be visited
    lineArgs,     \* moveOnLine: pos, res, oldPos and steps of the call of op
    calls         \* the moveToPos calls made by the call of op

vars == <<tarPos, axes, pc, op, err, ret, mvPos, mvVel, angleDiffs, i,
          notThereCnt, qId, resps, polls, sent, reported, line, lineArgs, calls>>

Origin == <<0, 0, 0>>

\* no moveOnLine call
NoLine == [pos |-> Origin, res |-> 0, old |-> Origin, steps |-> 0]

\* Positioner.__init__ with the default tarStartPos
Init ==
    /\ tarPos = Origin
    /\ axes = <<>>
    /\ pc = "idle"
    /\ op = "init"
    /\ err = "none"
    /\ ret = 0
    /\ mvPos = Origin
    /\ mvVel = 0
    /\ angleDiffs = <<>>
    /\ i = 0
    /\ notThereCnt = 0
    /\ qId = 0
    /\ resps = <<>>
    /\ polls = 0
    /\ sent = <<>>
    /\ reported = <<>>
    /\ line = <<>>
    /\ lineArgs = NoLine
    /\ calls = <<>>

\* the locals of a call that is not running
NoLocals ==
    /\ mvPos' = Origin
    /\ mvVel' = 0
    /\ angleDiffs' = <<>>
    /\ i' = 0
    /\ notThereCnt' = 0
    /\ polls' = 0

\* Positioner.addAxis
AddAxis(id, placed, diameter, attached, answer) ==
    /\ pc = "idle"
    /\ Len(axes) < MaxAxes
    /\ sent' = <<CmdPowOn(id), CmdPowQ(id)>>
    /\ resps' = <<answer>>
    /\ axes' = Append(axes, NewAxis(id, diameter, placed, tarPos, attached))
    /\ op' = "addAxis"
    /\ err' = "none"
    /\ reported' = <<>>
    /\ calls' = <<>>
    /\ NoLocals
    /\ ret' = 0
    /\ qId' = 0
    /\ lineArgs' = NoLine
    /\ UNCHANGED <<tarPos, pc, line>>

\* the log of lines written after line c is written: a line written again at once
\* is logged once
Wrote(log, c) == IF log # <<>> /\ log[Len(log)] = c THEN log ELSE Append(log, c)

\* ------------------------------------------------------------- moveToPos
\* a moveToPos call ends, normally (e = "none") or with exception e; rest is
\* what moveOnLine has still to visit
Return(e, rest) ==
    /\ err' = e
    /\ line' = IF e = "none" THEN rest ELSE <<>>
    /\ pc' = IF e = "none" /\ rest # <<>> THEN "line" ELSE "idle"
    /\ NoLocals

\* lines 139-146: the axes after setTarget(pos)
Retargeted(pos) == [k \in 1..Len(axes) |-> setTarget(axes[k], pos)]

\* lines 139-146: newAngle - oldAngle of every axis
AngleDiffs(pos) ==
    [k \in 1..Len(axes) |-> FSub(angle(setTarget(axes[k], pos)), angle(axes[k]))]

\* lines 132-133 with half the threshold
AlreadyThereHalf(pos) == magnitude(VecSub(pos, tarPos)) < Tol - 1

\* lines 132-133: no movement is necessary
AlreadyThere(pos) == magnitude(VecSub(pos, tarPos)) < Tol

\* lines 132-150 of a call moveToPos(pos, vel); made is the moveToPos calls
\* the running public method has made before, rest what moveOnLine visits next
Enter(pos, vel, made, rest) ==
    /\ calls' = Append(made, [pos |-> pos, vel |-> vel, tol |-> Tol])
    /\ sent' = <<>>
    /\ reported' = <<>>
    /\ resps' = <<>>
    /\ IF AlreadyThere(pos)
       THEN /\ Return("none", rest)
            /\ UNCHANGED <<tarPos, axes>>
       ELSE /\ axes' = Retargeted(pos)
            /\ angleDiffs' = AngleDiffs(pos)
            /\ mvPos' = pos
            /\ mvVel' = vel
            /\ i' = 1
            /\ pc' = IF Len(axes) = 0 THEN "wait" ELSE "dispatch"
            /\ err' = "none"
            /\ line' = rest
            /\ UNCHANGED <<tarPos, notThereCnt, polls>>

\* a caller calls moveToPos(pos, vel)
MoveToPos(pos, vel) ==
    /\ pc = "idle"
    /\ op' = "moveToPos"
    /\ Enter(pos, vel, <<>>, <<>>)
    /\ ret' = 0
    /\ qId' = 0
    /\ lineArgs' = NoLine

\* line 150
angleMagn(diffs) == magnitude(diffs)

\* line 154 with the same share for every axis: ax.len2rot(vel)
RotRateNumEqualSplit(ax, vel, angleDiff) ==
    LET v == len2rot(ax.diameter, vel)
    IN  IF v = NaN \/ angleDiff = NaN THEN NaN ELSE v

\* line 154, the dividend: ax.len2rot(vel)*angleDelta
RotRateNum(ax, vel, angleDiff) ==
    LET v == len2rot(ax.diameter, vel)
    IN  IF v = NaN \/ angleDiff = NaN THEN NaN ELSE v * Abs(angleDiff)

\* line 154 before np.clip, rounded down to 1/FScale degree per second: the
\* quotient by the root of the sum of squares is taken exactly
RotRateRaw(ax, vel, angleDiff, diffs) ==
    LET n == RotRateNum(ax, vel, angleDiff)
        m == angleMagn(diffs)
    IN  IF n = NaN \/ m = NaN \/ m = 0 THEN NaN
        ELSE IF n < 0 THEN -Sqrt((n * n) \div SumSq(diffs)) - 1
        ELSE Sqrt((n * n) \div SumSq(diffs))

\* line 154 without np.clip
RotRateUnclipped(ax, vel, angleDiff, diffs) ==
    RotRateRaw(ax, vel, angleDiff, diffs)

\* line 154: rotRate
RotRate(ax, vel, angleDiff, diffs) ==
    LET x == RotRateRaw(ax, vel, angleDiff, diffs)
    IN  IF x = NaN THEN NaN ELSE clip(x, RateMin * FScale, RateMax * FScale)

\* vel is a Python float (a direct call) and not a numpy one (a segment of moveOnLine)
VelIsPy == op = "moveToPos" \/ (Len(calls) = 1 /\ line = <<>>)

\* lines 152-159 for one axis
Dispatch ==
    /\ pc = "dispatch"
    /\ LET ax == axes[i]
           rotRate == RotRate(ax, mvVel, angleDiffs[i], angleDiffs)
       IN  IF ax.diameter = 0 /\ VelIsPy
           THEN /\ Return("ZeroDivisionError", line)
                /\ UNCHANGED sent
           ELSE IF rotRate = NaN
           THEN /\ Return("ValueError", line)
                /\ UNCHANGED sent
           ELSE /\ sent' = Wrote(Wrote(sent, CmdRate(ax.id, round(rotRate))),
                                  CmdPos(ax.id, round(angle(ax))))
                /\ i' = i + 1
                /\ pc' = IF i = Len(axes) THEN "wait" ELSE "dispatch"
                /\ UNCHANGED <<err, line, mvPos, mvVel, angleDiffs, notThereCnt, polls>>
    /\ UNCHANGED <<tarPos, axes, op, ret, qId, resps, reported, lineArgs, calls>>

\* lines 162-169: the estimated wait, then the first axis of the polling loop
Wait ==
    /\ pc = "wait"
    /\ IF Len(axes) = 0
       THEN Return("UnboundLocalError", line)
       ELSE /\ pc' = "poll"
            /\ i' = 1
            /\ notThereCnt' = 0
            /\ polls' = 0
            /\ UNCHANGED <<err, line, mvPos, mvVel, angleDiffs>>
    /\ UNCHANGED <<tarPos, axes, op, ret, qId, resps, sent, reported, lineArgs, calls>>

\* line 168: the polling loop goes to the next axis, or ends
NextAxis ==
    /\ notThereCnt' = 0
    /\ polls' = 0
    /\ i' = IF i < Len(axes) THEN i + 1 ELSE i
    /\ pc' = IF i < Len(axes) THEN "poll" ELSE "finish"
    /\ UNCHANGED <<err, line, mvPos, mvVel, angleDiffs>>

\* the position reported last by each axis polled so far
Reported(n) ==
    IF Len(reported) < i THEN Append(reported, n) ELSE [reported EXCEPT ![i] = n]

\* lines 170-186 with a window of two degrees
PolledWithin2(ax, n) ==
    IF Abs(n - round(angle(ax))) > 2
    THEN LET cnt == notThereCnt + 1
             resend == cnt = ResendAt
             cnt2 == IF resend THEN 0 ELSE cnt
         IN  /\ sent' = IF resend
                        THEN Wrote(Wrote(Wrote(sent, CmdPosQ(ax.id)),
                                         CmdRate(ax.id, ResendRate)),
                                   CmdPos(ax.id, round(angle(ax))))
                        ELSE Wrote(sent, CmdPosQ(ax.id))
             /\ IF cnt2 > GiveUpAfter
                THEN NextAxis
                ELSE /\ notThereCnt' = cnt2
                     /\ polls' = polls + 1
                     /\ UNCHANGED <<pc, i, err, line, mvPos, mvVel, angleDiffs>>
    ELSE /\ sent' = Wrote(sent, CmdPosQ(ax.id))
         /\ NextAxis

\* lines 170-186 without line 182: the counter runs on after the re-send
PolledNoReset(ax, n) ==
    IF Abs(n - round(angle(ax))) > 1
    THEN LET cnt == notThereCnt + 1
             resend == cnt = ResendAt
         IN  /\ sent' = IF resend
                        THEN Wrote(Wrote(Wrote(sent, CmdPosQ(ax.id)),
                                         CmdRate(ax.id, ResendRate)),
                                   CmdPos(ax.id, round(angle(ax))))
                        ELSE Wrote(sent, CmdPosQ(ax.id))
             /\ IF cnt > GiveUpAfter
                THEN NextAxis
                ELSE /\ notThereCnt' = cnt
                     /\ polls' = polls + 1
                     /\ UNCHANGED <<pc, i, err, line, mvPos, mvVel, angleDiffs>>
    ELSE /\ sent' = Wrote(sent, CmdPosQ(ax.id))
         /\ NextAxis

\* lines 170-186 after getPos returned n for axis ax
Polled(ax, n) ==
    IF Abs(n - round(angle(ax))) > 1
    THEN LET cnt == notThereCnt + 1
             resend == cnt = ResendAt
             cnt2 == IF resend THEN 0 ELSE cnt
         IN  /\ sent' = IF resend
                        THEN Wrote(Wrote(Wrote(sent, CmdPosQ(ax.id)),
                                         CmdRate(ax.id, ResendRate)),
                                   CmdPos(ax.id, round(angle(ax))))
                        ELSE Wrote(sent, CmdPosQ(ax.id))
             /\ IF cnt2 > GiveUpAfter
                THEN NextAxis
                ELSE /\ notThereCnt' = cnt2
                     /\ polls' = polls + 1
                     /\ UNCHANGED <<pc, i, err, line, mvPos, mvVel, angleDiffs>>
    ELSE /\ sent' = Wrote(sent, CmdPosQ(ax.id))
         /\ NextAxis

\* getPos after send answered r: the loop goes round again, int(resp) raises,
\* or the call returns int(resp)
GetPosNext(r) ==
    IF r = "" THEN "retry" ELSE IF ~IsInt(r) THEN "raise" ELSE "return"

\* one pass of the loop of getPos (lines 194-195) made for the polling loop, and
\* what follows its answer r up to the next query
Poll(maxPolls, maxEmpty, offsets, junk) ==
    /\ pc = "poll"
    /\ LET ax == axes[i]
           want == round(angle(ax))
       IN  \E r \in {""} \cup junk \cup { Fmt(want + o) : o \in offsets } :
             /\ r = "" => Len(resps) < maxEmpty
             /\ (IsInt(r) /\ Abs(ParseInt(r) - want) > 1) => polls < maxPolls
             /\ IF GetPosNext(r) = "retry"
                THEN /\ resps' = Append(resps, r)
                     /\ sent' = Wrote(sent, CmdPosQ(ax.id))
                     /\ UNCHANGED <<pc, i, err, line, mvPos, mvVel, angleDiffs,
                                    notThereCnt, polls, ret, reported>>
                ELSE IF GetPosNext(r) = "raise"
                THEN /\ resps' = Append(resps, r)
                     /\ sent' = Wrote(sent, CmdPosQ(ax.id))
                     /\ Return("ValueError", line)
                     /\ UNCHANGED <<ret, reported>>
                ELSE /\ resps' = <<>>
                     /\ reported' = Reported(ParseInt(r))
                     /\ UNCHANGED ret
                     /\ Polled(ax, ParseInt(r))
    /\ UNCHANGED <<tarPos, axes, op, qId, lineArgs, calls>>

\* lines 188-189 without the assignment
FinishKeepsTarPos ==
    /\ pc = "finish"
    /\ Return("none", line)
    /\ UNCHANGED <<tarPos, axes, op, ret, qId, resps, sent, reported, lineArgs, calls>>

\* lines 188-189
Finish ==
    /\ pc = "finish"
    /\ tarPos' = mvPos
    /\ Return("none", line)
    /\ UNCHANGED <<axes, op, ret, qId, resps, sent, reported, lineArgs, calls>>

\* ---------------------------------------------------------------- getPos
\* a caller calls getPos(id)
GetPos(id) ==
    /\ pc = "idle"
    /\ pc' = "query"
    /\ op' = "getPos"
    /\ qId' = id
    /\ err' = "none"
    /\ resps' = <<>>
    /\ sent' = <<>>
    /\ reported' = <<>>
    /\ calls' = <<>>
    /\ ret' = 0
    /\ lineArgs' = NoLine
    /\ UNCHANGED <<tarPos, axes, mvPos, mvVel, angleDiffs, i, notThereCnt,
                   polls, line>>

\* what the controller may answer to a direct query
QueryValues == {0, 7}

\* one pass of the loop of getPos (lines 194-196) in a direct call
Query(maxEmpty) ==
    /\ pc = "query"
    /\ \E r \in {"", "ERR"} \cup { Fmt(n) : n \in QueryValues } :
         /\ r = "" => Len(resps) < maxEmpty
         /\ resps' = Append(resps, r)
         /\ sent' = Wrote(sent, CmdPosQ(qId))
         /\ pc' = IF GetPosNext(r) = "retry" THEN "query" ELSE "idle"
         /\ err' = IF GetPosNext(r) = "raise" THEN "ValueError" ELSE "none"
         /\ ret' = IF GetPosNext(r) = "return" THEN ParseInt(r) ELSE ret
    /\ UNCHANGED <<tarPos, axes, op, qId, mvPos, mvVel, angleDiffs, i, notThereCnt,
                   polls, reported, line, lineArgs, calls>>

\* ------------------------------------------------------------ moveOnLine
Accs == {0, 10}

Ress == {1, 2}

\* line 210: steps
Steps(pos, res) == magnitude(VecSub(pos, tarPos)) \div res

\* lines 214-216 with the end point left out: point k of 0..steps-1
LinePointOpen(pos, steps, k) ==
    [c \in 1..3 |-> tarPos[c] + (k * (pos[c] - tarPos[c])) \div steps]

\* lines 214-216: np.linspace from tarPos to pos in steps points, point k of 0..steps-1
LinePoint(pos, steps, k) ==
    [c \in 1..3 |-> tarPos[c] + (k * (pos[c] - tarPos[c])) \div (steps - 1)]

\* the points of np.linspace lie on the grid
OnGrid(pos, steps) == \A c \in 1..3 : (pos[c] - tarPos[c]) % (steps - 1) = 0

\* lines 16-19 and 218: maxVel*((1.0-acc)+acc*parable(steps)) at point k, acc in tenths
LineVel(maxVel, acc, steps, k) ==
    LET d == steps - 1
    IN  Trunc(maxVel * ((10 - acc) * d * d + acc * (d * d - (2 * k - d) * (2 * k - d))),
              10 * d * d)

\* line 221 with the last point left off
WaypointsShort(pos, maxVel, acc, steps) ==
    [k \in 1..(steps - 1) |-> [pos |-> LinePoint(pos, steps, k - 1),
                               vel |-> LineVel(maxVel, acc, steps, k - 1)]]

\* lines 221: what zip(lineX, lineY, lineZ, vel) yields
Waypoints(pos, maxVel, acc, steps) ==
    [k \in 1..steps |-> [pos |-> LinePoint(pos, steps, k - 1),
                         vel |-> LineVel(maxVel, acc, steps, k - 1)]]

\* a caller calls moveOnLine(pos, maxVel, acc, res)
MoveOnLine(pos, maxVel, acc, res) ==
    /\ pc = "idle"
    /\ Steps(pos, res) <= MaxSteps
    /\ op' = "moveOnLine"
    /\ lineArgs' = [pos |-> pos, res |-> res, old |-> tarPos, steps |-> Steps(pos, res)]
    /\ IF Steps(pos, res) > 1
       THEN /\ OnGrid(pos, Steps(pos, res))
            /\ line' = Waypoints(pos, maxVel, acc, Steps(pos, res))
            /\ pc' = "line"
            /\ err' = "none"
            /\ calls' = <<>>
            /\ sent' = <<>>
            /\ reported' = <<>>
            /\ resps' = <<>>
            /\ UNCHANGED <<tarPos, axes, mvPos, mvVel, angleDiffs, i, notThereCnt, polls>>
       ELSE Enter(pos, maxVel, <<>>, <<>>)
    /\ ret' = 0
    /\ qId' = 0

\* line 222: the next moveToPos of the loop
LineStep ==
    /\ pc = "line"
    /\ Enter(Head(line).pos, Head(line).vel, calls, Tail(line))
    /\ UNCHANGED <<op, ret, qId, lineArgs>>

\* ---------------------------------------------------------- specification
\* the caller registers the axes first (in the class's usage: 3. add, 4. move)
Setup == op \in {"init", "addAxis"}

Next ==
    \/ /\ Setup
       /\ \E a \in AxisArgs, answer \in PowAnswers :
             AddAxis(a[1], a[2], a[3], a[4], answer)
    \/ \E pos \in Points, vel \in Vels : MoveToPos(pos, vel)
    \/ Dispatch
    \/ Wait
    \/ Poll(MaxPolls, PollEmpty, Offsets, {})
    \/ Finish
    \/ \E id \in Ids : GetPos(id)
    \/ Query(MaxEmpty)
    \/ \E pos \in Points, maxVel \in LineVels, acc \in Accs, res \in Ress :
          MoveOnLine(pos, maxVel, acc, res)
    \/ LineStep

Spec == Init /\ [][Next]_vars

\* axes of any kind, registered at any time between moves
NextSetup ==
    \/ \E a \in SetupArgs, answer \in PowAnswers :
          AddAxis(a[1], a[2], a[3], a[4], answer)
    \/ \E pos \in DeepPoints : MoveToPos(pos, 20)
    \/ Dispatch
    \/ Wait
    \/ Poll(0, 0, {0}, {})
    \/ Finish

SetupSpec == Init /\ [][NextSetup]_vars

\* one kind of axis, polled for long over a line that may fail
NextDeep ==
    \/ /\ Setup
       /\ \E a \in DeepArgs, answer \in PowAnswers :
             AddAxis(a[1], a[2], a[3], a[4], answer)
    \/ \E pos \in DeepPoints : MoveToPos(pos, 20)
    \/ Dispatch
    \/ Wait
    \/ Poll(DeepPolls, PollEmpty, DeepOffsets, {"ERR"})
    \/ Finish

DeepSpec == Init /\ [][NextDeep]_vars

\* the velocities of the runs that poll until the lines are sent again
PollVels == {0, 20, 1200}

\* the axes of these runs: id, placed, diameter, attached
PollArgs ==
    { <<1, <<-8, 0, 0>>, 360, <<0, 0, 0>>>>,
      <<2, <<3, 0, 0>>, 720, <<1, 0, 0>>>> }

\* two axes, polled until the lines are sent again, at any velocity
NextPoll ==
    \/ /\ Setup
       /\ \E a \in PollArgs, answer \in PowAnswers :
             AddAxis(a[1], a[2], a[3], a[4], answer)
    \/ \E pos \in DeepPoints, vel \in PollVels : MoveToPos(pos, vel)
    \/ Dispatch
    \/ Wait
    \/ Poll(PollDepth, PollEmpty, Offsets, {"ERR"})
    \/ Finish

PollSpec == Init /\ [][NextPoll]_vars

\* ================================================================ claims

\* a response that is no valid number: no data, or data that does not parse
Failed(r) == ~IsInt(r)

\* C1: an axis that never reports within one degree is given up after the large
\* bound of unsatisfied polls: the polling loop never stands at an axis that
\* has had more than GiveUpAfter + 1 unsatisfied polls in the running call
C1_GivesUp == pc = "poll" => polls <= GiveUpAfter + 1

\* C2: a direct position query that got no valid response on three attempts
\* has ended with the error QueryExhausted, and made no fourth attempt
C2_QueryExhausted ==
    (op = "getPos" /\ Len(resps) >= 3 /\ \A k \in 1..3 : Failed(resps[k]))
        => (pc = "idle" /\ err = "QueryExhausted" /\ Len(resps) = 3)

\* C3: in a direct position query a failed first or second attempt (no data, or
\* data that is no number) is retried and raises nothing, and after two failed
\* attempts and a valid third one the query has returned the third value
C3_FlakyAbsorbed ==
    op = "getPos" =>
        /\ (Len(resps) \in {1, 2} /\ Failed(resps[Len(resps)]))
              => (pc = "query" /\ err = "none")
        /\ (Len(resps) = 3 /\ Failed(resps[1]) /\ Failed(resps[2]) /\ IsInt(resps[3]))
              => (pc = "idle" /\ err = "none" /\ ret = ParseInt(resps[3]))

\* a step that enters moveToPos (a direct call, or one made by moveOnLine)
Entering == pc = "line" \/ (pc = "idle" /\ calls' # <<>>)

\* the pos of the moveToPos call a step enters
EnteredPos == calls'[Len(calls')].pos

\* what a moveToPos call that does nothing leaves behind
NothingDone ==
    /\ sent' = <<>>
    /\ tarPos' = tarPos
    /\ axes' = axes
    /\ pc' \in {"idle", "line"}
    /\ err' = "none"

\* C4 as stated: a moveToPos(pos) with distance(pos, tarPos) within the tolerance,
\* the tolerance itself included, writes no line and changes neither tarPos nor
\* any axis
C4_NoOpWithinOrAt ==
    [][(Entering /\ magnitude(VecSub(EnteredPos, tarPos)) <= Tol) => NothingDone]_vars

\* C4 amended: a moveToPos(pos) with distance(pos, tarPos) strictly below the
\* tolerance writes no line and changes neither tarPos nor any axis
C4_NoOpWithin ==
    [][(Entering /\ magnitude(VecSub(EnteredPos, tarPos)) < Tol) => NothingDone]_vars

\* C4 witness: a direct call to a pos off tarPos by less than the tolerance has
\* returned, with an axis registered
C4_Witness ==
    /\ op = "moveToPos"
    /\ pc = "idle"
    /\ err = "none"
    /\ axes # <<>>
    /\ Len(calls) = 1
    /\ calls[1].pos # tarPos
    /\ magnitude(VecSub(calls[1].pos, tarPos)) < Tol
    /\ sent = <<>>

\* C5: tarPos changes only in the last step of a moveToPos call, after the
\* polling of every axis, and that step sets it to the pos of the call
C5_TarPosAtEnd ==
    [][/\ tarPos' # tarPos => pc = "finish"
       /\ pc = "finish" => (tarPos' = calls[Len(calls)].pos /\ pc' \in {"idle", "line"})
       /\ pc \in {"dispatch", "wait", "poll"} => ~AlreadyThere(calls[Len(calls)].pos)]_vars

\* C5 witness: a direct call has dispatched, polled two axes and returned with
\* tarPos at its pos
C5_Witness ==
    /\ op = "moveToPos"
    /\ pc = "idle"
    /\ err = "none"
    /\ Len(axes) = 2
    /\ Len(reported) = 2
    /\ tarPos = calls[1].pos
    /\ tarPos # Origin

\* the degrees axis k was off its commanded angle at its last report
Remaining(k) == reported[k] - round(angle(axes[k]))

\* every axis has reported in the running polling phase
AllReported == Len(axes) > 0 /\ Len(reported) = Len(axes)

\* the remaining lengths Remaining(k)*circumference/360 of all axes have a
\* Euclidean norm of at most the tolerance
AggregateWithin ==
    SumSq([k \in 1..Len(axes) |-> Remaining(k) * axes[k].diameter])
        <= (360 * Tol) * (360 * Tol)

\* every axis is at most one degree off
AllWithinOne == \A k \in 1..Len(axes) : Abs(Remaining(k)) <= 1

\* C6 as stated: the polling phase has ended as soon as the remaining distance
\* aggregated over all axes is within the tolerance, or every axis is at most
\* one degree off
C6_EndsOnAggregate ==
    (pc = "poll" /\ AllReported) => ~(AggregateWithin \/ AllWithinOne)

\* C6 amended: the polling loop leaves an axis exactly when that axis reports a
\* position at most one degree off its commanded angle, and the phase ends when
\* the last axis does so; no aggregated distance is looked at
C6_EndsPerAxis ==
    [][(pc = "poll" /\ resps' = <<>>) =>
          IF Abs(reported'[i] - round(angle(axes[i]))) <= 1
          THEN IF i = Len(axes) THEN pc' = "finish" ELSE pc' = "poll" /\ i' = i + 1
          ELSE pc' = "poll" /\ i' = i /\ polls' = polls + 1]_vars

\* C6 witness: the last axis is still polled, two degrees off, while the
\* aggregated remaining distance is within the tolerance
C6_Witness ==
    /\ pc = "poll"
    /\ AllReported
    /\ i = Len(axes)
    /\ polls > 0
    /\ Abs(Remaining(i)) > 1
    /\ AggregateWithin

\* C7: the ids of the registered axes are pairwise distinct and every diameter
\* is positive
C7_AxesValid ==
    /\ \A j, k \in 1..Len(axes) : j # k => axes[j].id # axes[k].id
    /\ \A k \in 1..Len(axes) : axes[k].diameter > 0

\* C8: an addAxis call writes the power-on command and then the power query of
\* its id, and appends one Axis whatever the answer is; the new axis's target is
\* tarPos plus its attached offset, and the axes registered before are unchanged
C8_AddAxisAppends ==
    [][(pc = "idle" /\ op' = "addAxis") =>
          /\ Len(axes') = Len(axes) + 1
          /\ SubSeq(axes', 1, Len(axes)) = axes
          /\ LET a == axes'[Len(axes')]
             IN  /\ sent' = <<CmdPowOn(a.id), CmdPowQ(a.id)>>
                 /\ a.target = VecAdd(tarPos, a.attached)
          /\ \E answer \in PowAnswers : resps' = <<answer>>
          /\ tarPos' = tarPos
          /\ pc' = "idle"
          /\ err' = "none"]_vars

\* C8 witness: a second axis with an attached offset has been registered after a
\* move, and the power query got no answer
C8_Witness ==
    /\ op = "addAxis"
    /\ Len(axes) = 2
    /\ resps = <<"">>
    /\ tarPos # Origin
    /\ axes[2].attached # Origin
    /\ axes[2].target = VecAdd(tarPos, axes[2].attached)

\* a moveOnLine call has returned normally
LineDone == op = "moveOnLine" /\ pc = "idle" /\ err = "none"

\* the moveToPos calls of the moveOnLine call go to evenly spaced points
EvenlySpaced ==
    \A k \in 1..(Len(calls) - 1) :
        VecSub(calls[k + 1].pos, calls[k].pos) = VecSub(calls[2].pos, calls[1].pos)

Unclamped(k) ==
    /\ RotRateRaw(axes[k], mvVel, angleDiffs[k], angleDiffs) # NaN
    /\ RotRate(axes[k], mvVel, angleDiffs[k], angleDiffs)
          = RotRateRaw(axes[k], mvVel, angleDiffs[k], angleDiffs)

\* rotRate of axis j : rotRate of axis k = |angleDiff| of j : |angleDiff| of k,
\* the common divisor angleMagn left out
Proportional(j, k) ==
    RotRateNum(axes[j], mvVel, angleDiffs[j]) * Abs(angleDiffs[k])
        = RotRateNum(axes[k], mvVel, angleDiffs[k]) * Abs(angleDiffs[j])

\* C10 as stated: the rates of any two axes that np.clip leaves alone are in the
\* ratio of their |angleDiff|, whatever the diameters
C10_ProportionalAny ==
    pc = "dispatch" =>
        \A j, k \in 1..Len(axes) : (Unclamped(j) /\ Unclamped(k)) => Proportional(j, k)

\* C10 amended: the rates of any two axes of equal diameter that np.clip leaves
\* alone are in the ratio of their |angleDiff|
C10_ProportionalSameDiameter ==
    pc = "dispatch" =>
        \A j, k \in 1..Len(axes) :
            (Unclamped(j) /\ Unclamped(k) /\ axes[j].diameter = axes[k].diameter)
                => Proportional(j, k)

\* C10 witness: two axes of equal diameter with different, nonzero angleDiffs
\* are dispatched at rates np.clip leaves alone
C10_Witness ==
    /\ pc = "dispatch"
    /\ Len(axes) = 2
    /\ axes[1].diameter = axes[2].diameter
    /\ Unclamped(1)
    /\ Unclamped(2)
    /\ angleDiffs[1] # 0
    /\ angleDiffs[2] # 0
    /\ Abs(angleDiffs[1]) # Abs(angleDiffs[2])

\* the numbers a RATE command may carry as far as the syntax goes
NumRange == (0 - RateMax)..(RateMax + RateMax)

\* the command lines of axis id that begin with prefix
Lines(prefix, id) ==
    {prefix \o Fmt(id) \o ":POW ON", prefix \o Fmt(id) \o ":POW?",
     prefix \o Fmt(id) \o ":POS?"}
        \cup { prefix \o Fmt(id) \o ":RATE " \o Fmt(n) : n \in NumRange }
        \cup { prefix \o Fmt(id) \o ":POS " \o Fmt(n) : n \in IntRange }

\* the command lines of the forms AXIS<id>:...
AxisLines == [id \in Ids |-> Lines("AXIS", id)]

\* the command lines of the forms AX<id>:..., with or without ;*OPC?
ShortLines ==
    [id \in Ids |-> Lines("AX", id) \cup { l \o ";*OPC?" : l \in Lines("AX", id) }]

\* the ids of the axes the running call may address
ConcernedIds ==
    IF op = "getPos" THEN {qId}
    ELSE IF op = "addAxis" THEN {axes[Len(axes)].id}
    ELSE { axes[k].id : k \in 1..Len(axes) }

\* C11 as stated: every line written has one of the forms AX<id>:POW ON,
\* AX<id>:POW?, AX<id>:RATE <numeric>, AX<id>:POS <numeric>, AX<id>:POS?, with
\* or without ;*OPC?, for the id of an axis concerned
C11_ShortSyntax ==
    \A k \in 1..Len(sent) : \E id \in ConcernedIds : sent[k] \in ShortLines[id]

\* C11 amended: every line written has one of the forms AXIS<id>:POW ON,
\* AXIS<id>:POW?, AXIS<id>:RATE <integer>, AXIS<id>:POS <integer>, AXIS<id>:POS?,
\* never with a suffix, for the id of an axis concerned
C11_WireSyntax ==
    \A k \in 1..Len(sent) : \E id \in ConcernedIds : sent[k] \in AxisLines[id]

\* C11 witness: a move has written RATE, POS and POS? lines for two axes of
\* different ids
C11_Witness ==
    /\ pc = "finish"
    /\ Len(axes) = 2
    /\ axes[1].id # axes[2].id
    /\ Len(sent) = 6
    /\ sent[6] = CmdPosQ(axes[2].id)

\* the lines written so far are one RATE line and then one POS line for each of
\* the first n axes, in registration order, the POS line carrying the axis's
\* relative angle for the pos of the call
DispatchedTo(n) ==
    /\ Len(sent) = 2 * n
    /\ \A k \in 1..n :
          /\ \E r \in NumRange : sent[2 * k - 1] = CmdRate(axes[k].id, r)
          /\ sent[2 * k] = CmdPos(axes[k].id, round(angle(axes[k])))

\* C12: a moveToPos call that moves writes, for each registered axis in
\* registration order, one RATE line followed at once by one POS line with the
\* axis's relative angle for pos, and no POS? before all of them: the dispatch
\* loop is left only with the lines of every axis written, and nothing else
C12_DispatchOrder ==
    [][/\ pc = "dispatch" => DispatchedTo(i - 1)
       /\ (pc = "dispatch" /\ pc' # "dispatch") => (pc' = "wait" /\ DispatchedTo(Len(axes))')]_vars

\* the lines that are no RATE command
OtherLines ==
    UNION { {"AXIS" \o Fmt(id) \o ":POW ON", "AXIS" \o Fmt(id) \o ":POW?",
             "AXIS" \o Fmt(id) \o ":POS?"}
                \cup { "AXIS" \o Fmt(id) \o ":POS " \o Fmt(n) : n \in IntRange } : id \in Ids }

\* the RATE commands with a value of 1 to 1000
SafeRates ==
    { "AXIS" \o Fmt(id) \o ":RATE " \o Fmt(n) : id \in Ids, n \in RateMin..RateMax }

\* C13: every RATE command written, by the dispatch loop and by the re-sending
\* of the polling loop alike, carries a value from 1 to 1000
C13_RateInRange ==
    \A k \in 1..Len(sent) : sent[k] \in OtherLines \cup SafeRates

\* C13 witness: one call has written a RATE of 1 for a velocity of 0 and has
\* re-sent RATE 10 while polling
C13_Witness ==
    /\ pc = "poll"
    /\ mvVel = 0
    /\ sent[1] = CmdRate(axes[1].id, RateMin)
    /\ \E k \in 1..Len(sent) : sent[k] = CmdRate(axes[i].id, ResendRate)

\* the times the polling loop of the running call has sent the rate of axis k again
Resends(k) ==
    Cardinality({ n \in (2 * Len(axes) + 1)..Len(sent) :
                    sent[n] = CmdRate(axes[k].id, ResendRate) })

\* C14: within one moveToPos call the rate and position of an axis are sent
\* again at most once, however long the axis stays off position
C14_ResendOnce ==
    pc = "poll" => \A k \in 1..Len(axes) : Resends(k) <= 1

\* the fields of an axis that are set at construction only
Fixed(ax) == <<ax.id, ax.diameter, ax.placed, ax.attached, ax.offsetRot>>

\* C15: no step changes the id, diameter, placed, attached or offsetRot of a
\* registered axis, and no axis is removed or moved in the list; only targets
\* change
C15_AxisFieldsFixed ==
    [][/\ Len(axes') >= Len(axes)
       /\ \A k \in 1..Len(axes) : Fixed(axes'[k]) = Fixed(axes[k])]_vars

\* C15 witness: after a move and a moveOnLine an axis has a target other than
\* the one it was built with, so its rotation is no longer offsetRot
C15_Witness ==
    /\ op = "moveOnLine"
    /\ pc = "idle"
    /\ err = "none"
    /\ Len(axes) = 2
    /\ Len(calls) > 1
    /\ \A k \in 1..2 : rot(axes[k]) # axes[k].offsetRot
    /\ axes[2].attached # Origin

\* C16: whenever no moveToPos call is executing, however the last one ended, the
\* target of every registered axis is tarPos plus the axis's attached offset
C16_TargetsFollowTarPos ==
    pc \in {"idle", "line"} =>
        \A k \in 1..Len(axes) : axes[k].target = VecAdd(tarPos, axes[k].attached)

C18_AngleMagnPositive ==
    /\ pc = "dispatch" => angleMagn(angleDiffs) > 0
    /\ (op \in {"moveToPos", "moveOnLine"} /\ axes # <<>>) => err # "ValueError"

\* C19: a moveToPos(pos) on a Positioner without axes, pos beyond the tolerance,
\* writes no line, raises no error and ends with tarPos at pos
\* (the call starts from the start position, no earlier move having ended)
C19_NoAxesMove ==
    (op = "moveToPos" /\ pc = "idle" /\ axes = <<>>
        /\ magnitude(VecSub(calls[1].pos, Origin)) >= Tol)
        => (sent = <<>> /\ err = "none" /\ tarPos = calls[1].pos)

\* C20 as stated: after moveOnLine(pos, ...) has returned normally tarPos equals pos
C20_LineEndsAtPos == LineDone => tarPos = lineArgs.pos

\* C20 amended: after moveOnLine(pos, ...) has returned normally tarPos is less
\* than the threshold of 1 mm away from pos, and it equals pos when pos was at
\* least 1 mm away from the tarPos the last moveToPos call found
C20_LineEndsNearPos ==
    /\ LineDone => magnitude(VecSub(lineArgs.pos, tarPos)) < Tol
    /\ (LineDone /\ sent # <<>>) => tarPos = lineArgs.pos

\* C20 witness: a moveOnLine with a resolution below the threshold has moved an
\* axis over two points and ended at pos
C20_Witness ==
    /\ LineDone
    /\ axes # <<>>
    /\ lineArgs.res < Tol
    /\ lineArgs.steps = 2
    /\ Len(calls) = 2
    /\ sent # <<>>
    /\ tarPos = lineArgs.pos
    /\ tarPos # lineArgs.old

====
